---- MODULE Spec2Model ----
(***************************************************************************)
(* Model of the tag index engine of TagsForFiles.py: the FileRecord /      *)
(* TagsForFiles data model, the text parser and serializer, the tag        *)
(* normalizer, the paragraph wrapper and the bulk file operations.         *)
(*                                                                         *)
(* Strings are sequences of one-character strings, so that strip, split,   *)
(* replace, sorting and the os.path functions are computed character by    *)
(* character as Python computes them.                                      *)
(***************************************************************************)
EXTENDS Integers, Sequences, FiniteSets, TLC

VARIABLES os_name, files, dirs, file_records, tags, last

vars == <<os_name, files, dirs, file_records, tags, last>>

(***************************************************************************)
(* Characters and Python str primitives                                    *)
(***************************************************************************)

\* Printable ASCII in code point order, 32 (space) .. 126 (~).  Character 96,
\* the grave accent, is written "BACKQUOTE".
Printable ==
  <<" ", "!", "\"", "#", "$", "%", "&", "'", "(", ")", "*", "+", ",", "-",
    ".", "/", "0", "1", "2", "3", "4", "5", "6", "7", "8", "9", ":", ";",
    "<", "=", ">", "?", "@", "A", "B", "C", "D", "E", "F", "G", "H", "I",
    "J", "K", "L", "M", "N", "O", "P", "Q", "R", "S", "T", "U", "V", "W",
    "X", "Y", "Z", "[", "\\", "]", "^", "_", "BACKQUOTE", "a", "b", "c", "d", "e",
    "f", "g", "h", "i", "j", "k", "l", "m", "n", "o", "p", "q", "r", "s",
    "t", "u", "v", "w", "x", "y", "z", "{", "|", "}", "~">>

Control == {"\t", "\n", "\r"}

Chars == {Printable[i] : i \in 1..Len(Printable)} \cup Control

\* ord(c)
Ord ==
  [c \in Chars |->
     IF c = "\t" THEN 9
     ELSE IF c = "\n" THEN 10
     ELSE IF c = "\r" THEN 13
     ELSE 31 + (CHOOSE i \in 1..Len(Printable) : Printable[i] = c)]

\* str.isspace for one character
Whitespace == {" ", "\t", "\n", "\r"}

\* str.lower for one character
LowerChar ==
  [c \in Chars |->
     IF Ord[c] >= 65 /\ Ord[c] <= 90 THEN Printable[Ord[c] - 31 + 32] ELSE c]

\* str.lower
lower(s) == [i \in 1..Len(s) |-> LowerChar[s[i]]]

\* s1 < s2 for Python str (code point lexicographic order)
RECURSIVE StrLess(_, _)
StrLess(a, b) ==
  IF b = <<>> THEN FALSE
  ELSE IF a = <<>> THEN TRUE
  ELSE IF Head(a) = Head(b) THEN StrLess(Tail(a), Tail(b))
  ELSE Ord[Head(a)] < Ord[Head(b)]

\* str.lstrip()
RECURSIVE lstrip(_)
lstrip(s) ==
  IF s # <<>> /\ Head(s) \in Whitespace THEN lstrip(Tail(s)) ELSE s

\* str.rstrip()
RECURSIVE rstrip(_)
rstrip(s) ==
  IF s # <<>> /\ s[Len(s)] \in Whitespace
  THEN rstrip(SubSeq(s, 1, Len(s) - 1)) ELSE s

\* str.strip()
strip(s) == rstrip(lstrip(s))

\* str.split(sep) for a one-character sep: every sep cuts, empty pieces kept.
RECURSIVE SplitOn(_, _, _)
SplitOn(s, sep, cur) ==
  IF s = <<>> THEN <<cur>>
  ELSE IF Head(s) = sep THEN <<cur>> \o SplitOn(Tail(s), sep, <<>>)
  ELSE SplitOn(Tail(s), sep, Append(cur, Head(s)))

split_sep(s, sep) == SplitOn(s, sep, <<>>)

\* str.split(): cut on runs of whitespace, no empty pieces.
RECURSIVE SplitWs(_, _)
SplitWs(s, cur) ==
  IF s = <<>> THEN (IF cur = <<>> THEN <<>> ELSE <<cur>>)
  ELSE IF Head(s) \in Whitespace
       THEN (IF cur = <<>> THEN <<>> ELSE <<cur>>) \o SplitWs(Tail(s), <<>>)
       ELSE SplitWs(Tail(s), Append(cur, Head(s)))

split(s) == SplitWs(s, <<>>)

\* sep.join(list)
RECURSIVE join(_, _)
join(sep, list) ==
  IF list = <<>> THEN <<>>
  ELSE IF Len(list) = 1 THEN list[1]
  ELSE list[1] \o sep \o join(sep, Tail(list))

\* s.startswith(p)
startswith(s, p) == Len(s) >= Len(p) /\ SubSeq(s, 1, Len(p)) = p

\* str.replace(old, new): leftmost non-overlapping occurrences, old non-empty.
RECURSIVE replace(_, _, _)
replace(s, old, new) ==
  IF Len(s) < Len(old) THEN s
  ELSE IF startswith(s, old)
       THEN new \o replace(SubSeq(s, Len(old) + 1, Len(s)), old, new)
       ELSE <<Head(s)>> \o replace(Tail(s), old, new)

\* n copies of the character c
Rep(c, n) == [i \in 1..n |-> c]

(***************************************************************************)
(* os.path, for the platform the program runs on (posixpath or ntpath).    *)
(* Paths carry no drive letter.                                            *)
(***************************************************************************)

\* os.sep
os_sep(os) == IF os = "nt" THEN "\\" ELSE "/"

\* the characters os.path takes for a separator
os_seps(os) == IF os = "nt" THEN {"\\", "/"} ELSE {"/"}

\* the index of the last separator of p, 0 when it has none
RECURSIVE LastSep(_, _, _)
LastSep(os, p, i) ==
  IF i = 0 THEN 0
  ELSE IF p[i] \in os_seps(os) THEN i
  ELSE LastSep(os, p, i - 1)

\* head.rstrip(seps)
RECURSIVE RstripSeps(_, _)
RstripSeps(os, s) ==
  IF s # <<>> /\ s[Len(s)] \in os_seps(os)
  THEN RstripSeps(os, SubSeq(s, 1, Len(s) - 1)) ELSE s

\* os.path.split(p): <<head, tail>>
os_path_split(os, p) ==
  LET i    == LastSep(os, p, Len(p))
      head == SubSeq(p, 1, i)
      tail == SubSeq(p, i + 1, Len(p))
      cut  == RstripSeps(os, head)
  IN  <<IF cut = <<>> THEN head ELSE cut, tail>>

\* os.path.dirname(p)
os_path_dirname(os, p) == os_path_split(os, p)[1]

\* os.path.basename(p)
os_path_basename(os, p) == os_path_split(os, p)[2]

\* os.path.join(a, b)
os_path_join2(os, a, b) ==
  IF b # <<>> /\ b[1] \in os_seps(os) THEN b
  ELSE IF a = <<>> \/ a[Len(a)] \in os_seps(os) THEN a \o b
  ELSE a \o <<os_sep(os)>> \o b

\* os.path.join(a, b, c)
os_path_join3(os, a, b, c) == os_path_join2(os, os_path_join2(os, a, b), c)

\* os.path.exists(p) on the file system <<files, dirs>>
os_path_exists(fs_files, fs_dirs, p) == p \in fs_files \/ p \in fs_dirs

(***************************************************************************)
(* Util                                                                    *)
(***************************************************************************)

\* to_remove of Util.transform_to_tag
to_remove ==
  {"/", ",", "(", ")", "'", "\"", "!", "&", "%", ";", "^", "$", "#", "@",
   "<", ">", "{", "}", "[", "]", "\\", "|", "?", "*", "~", "BACKQUOTE"}

\* text.lower().translate({ord(i): None for i in to_remove})
RECURSIVE translate_remove(_)
translate_remove(s) ==
  IF s = <<>> THEN <<>>
  ELSE IF Head(s) \in to_remove THEN translate_remove(Tail(s))
  ELSE <<Head(s)>> \o translate_remove(Tail(s))

\* Util.transform_to_tag(text)
transform_to_tag(text) ==
  LET t0 == translate_remove(lower(text))
      t1 == replace(t0, <<" ", "-", " ">>, <<"-">>)
      t2 == replace(t1, Rep(" ", 4), <<"-">>)
      t3 == replace(t2, Rep(" ", 3), <<"-">>)
      t4 == replace(t3, Rep(" ", 2), <<"-">>)
      t5 == replace(t4, Rep(" ", 1), <<"-">>)
      t6 == replace(t5, Rep("-", 5), <<"-">>)
      t7 == replace(t6, Rep("-", 4), <<"-">>)
      t8 == replace(t7, Rep("-", 3), <<"-">>)
      t9 == replace(t8, Rep("-", 2), <<"-">>)
  IN  t9

\* the non-empty pieces of text_to_reflow.split(" ")
sub_strings_of(text_to_reflow) ==
  SelectSeq(split_sep(text_to_reflow, " "), LAMBDA c : Len(c) > 0)

\* The loop of Util.paragraph_wrap from token i on: the final out_list.
RECURSIVE WrapLoop(_, _, _, _, _)
WrapLoop(sub_strings, num_columns, i, out_list, build) ==
  IF i > Len(sub_strings)
  THEN IF Len(build) > 0 THEN Append(out_list, strip(build)) ELSE out_list
  ELSE LET tok == sub_strings[i] IN
       IF Len(tok) = 0
       THEN WrapLoop(sub_strings, num_columns, i + 1, out_list, build)
       ELSE IF Len(build) + Len(tok) < num_columns
       THEN WrapLoop(sub_strings, num_columns, i + 1, out_list,
                     build \o <<" ">> \o strip(tok))
       ELSE IF build = <<>>
       THEN WrapLoop(sub_strings, num_columns, i + 1,
                     Append(out_list, <<" ">> \o strip(tok)), build)
       ELSE WrapLoop(sub_strings, num_columns, i + 1,
                     Append(out_list, strip(build)), tok)

\* out_list of Util.paragraph_wrap at its return
wrap_out_list(text_to_reflow, num_columns) ==
  WrapLoop(sub_strings_of(text_to_reflow), num_columns, 1, <<>>, <<>>)

\* Util.paragraph_wrap(text_to_reflow, num_columns)
paragraph_wrap(text_to_reflow, num_columns) ==
  join(<<"\n">>, wrap_out_list(text_to_reflow, num_columns))

(***************************************************************************)
(* FileRecord and the operations of TagsForFiles, as functions of the      *)
(* index (file_records, tags) and the file system (files, dirs).           *)
(***************************************************************************)

\* FileRecord.__init__
FileRecord(file_id, path, file_exists) ==
  [id |-> file_id, path |-> path, file_exists |-> file_exists,
   comments |-> <<>>, tags |-> {}]

\* The search loop of add_path / find_record_for_path: the position of the
\* first record with this path, 0 when there is none.
find_record_for_path(recs, path) ==
  IF \E i \in 1..Len(recs) : recs[i].path = path
  THEN CHOOSE i \in 1..Len(recs) :
         /\ recs[i].path = path
         /\ \A j \in 1..(i - 1) : recs[j].path # path
  ELSE 0

\* TagsForFiles.add_path: the records afterwards and the position of the
\* record returned.
AddPath(recs, fs_files, fs_dirs, path) ==
  LET i == find_record_for_path(recs, path) IN
  IF i # 0 THEN [records |-> recs, index |-> i]
  ELSE [records |->
          Append(recs, FileRecord(Len(recs), path,
                                  os_path_exists(fs_files, fs_dirs, path))),
        index |-> Len(recs) + 1]

\* The locals of import_text_data before its loop; record = 0 is None.
ImportStart(recs, tagset) ==
  [records |-> recs, tags |-> tagset, want_path_name |-> TRUE,
   want_tags |-> FALSE, record |-> 0, raised |-> FALSE]

\* ImportLine with a comment line kept whenever a record has been named, also
\* after a blank line has closed it.
ImportLine_KeepsComment(st, fs_files, fs_dirs, line) ==
  LET stripped_line == strip(line) IN
  IF Len(stripped_line) = 0
  THEN [st EXCEPT !.want_path_name = TRUE, !.want_tags = FALSE]
  ELSE IF stripped_line[1] = "#"
  THEN IF st.record # 0
       THEN [st EXCEPT !.records[st.record].comments =
                           Append(@, stripped_line)]
       ELSE st
  ELSE IF st.want_path_name
  THEN LET a == AddPath(st.records, fs_files, fs_dirs, stripped_line) IN
       [st EXCEPT !.records = a.records, !.record = a.index,
                  !.want_path_name = FALSE, !.want_tags = TRUE]
  ELSE LET words     == split(stripped_line)
           tags_list == {strip(words[k]) : k \in 1..Len(words)}
       IN  [st EXCEPT !.records[st.record].tags = @ \cup tags_list,
                      !.tags = @ \cup tags_list]

\* One iteration of the loop of import_text_data.  Using record while it is
\* None raises AttributeError.
ImportLine(st, fs_files, fs_dirs, line) ==
  LET stripped_line == strip(line) IN
  IF Len(stripped_line) = 0
  THEN [st EXCEPT !.want_path_name = TRUE, !.want_tags = FALSE]
  ELSE IF stripped_line[1] = "#"
  THEN IF st.want_tags
       THEN IF st.record = 0 THEN [st EXCEPT !.raised = TRUE]
            ELSE [st EXCEPT !.records[st.record].comments =
                                Append(@, stripped_line)]
       ELSE st
  ELSE IF st.want_path_name
  THEN LET a == AddPath(st.records, fs_files, fs_dirs, stripped_line) IN
       [st EXCEPT !.records = a.records, !.record = a.index,
                  !.want_path_name = FALSE, !.want_tags = TRUE]
  ELSE IF st.want_tags
  THEN LET words     == split(stripped_line)
           tags_list == {strip(words[k]) : k \in 1..Len(words)}
       IN  IF st.record = 0 THEN [st EXCEPT !.raised = TRUE]
           ELSE [st EXCEPT !.records[st.record].tags = @ \cup tags_list,
                           !.tags = @ \cup tags_list]
  ELSE st

\* The loop of import_text_data over text_data, left at the first exception.
RECURSIVE ImportLoop(_, _, _, _)
ImportLoop(st, fs_files, fs_dirs, text_data) ==
  IF text_data = <<>> \/ st.raised THEN st
  ELSE ImportLoop(ImportLine(st, fs_files, fs_dirs, Head(text_data)),
                  fs_files, fs_dirs, Tail(text_data))

\* TagsForFiles.import_text_data
ImportTextData(recs, tagset, fs_files, fs_dirs, text_data) ==
  ImportLoop(ImportStart(recs, tagset), fs_files, fs_dirs, text_data)

\* The second loop of build_tagged_files_map: m[t].add(f.path) raises
\* KeyError when t is not a key of m.
RECURSIVE MapLoop(_, _, _, _)
MapLoop(recs, only_existing, i, st) ==
  IF i > Len(recs) \/ st.raised THEN st
  ELSE LET f == recs[i] IN
       IF only_existing /\ ~f.file_exists
       THEN MapLoop(recs, only_existing, i + 1, st)
       ELSE IF \E t \in f.tags : t \notin DOMAIN st.m
       THEN [st EXCEPT !.raised = TRUE]
       ELSE MapLoop(recs, only_existing, i + 1,
              [st EXCEPT !.m = [t \in DOMAIN st.m |->
                 IF t \in f.tags THEN st.m[t] \cup {f.path} ELSE st.m[t]]])

\* TagsForFiles.build_tagged_files_map
build_tagged_files_map(recs, tagset, only_existing) ==
  MapLoop(recs, only_existing, 1,
          [m |-> [t \in tagset |-> {}], raised |-> FALSE])

\* The intersection loop of get_matching_tagged_files over the sets of T.
RECURSIVE IntersectLoop(_, _, _, _)
IntersectLoop(m, T, first, out) ==
  IF T = {} THEN out
  ELSE LET t == CHOOSE x \in T : TRUE IN
       IntersectLoop(m, T \ {t}, FALSE,
                     IF first THEN m[t] ELSE out \cap m[t])

\* TagsForFiles.get_matching_tagged_files; q.none is "tags is None".  The
\* returned collection is given as the set of its elements.
GetMatchingTaggedFiles(recs, tagset, q, only_existing) ==
  IF q.none \/ Cardinality(q.tags) = 0 THEN [raised |-> FALSE, ret |-> {}]
  ELSE LET b == build_tagged_files_map(recs, tagset, only_existing) IN
       IF b.raised THEN [raised |-> TRUE, ret |-> {}]
       ELSE IF \E t \in q.tags : t \notin DOMAIN b.m
       THEN [raised |-> FALSE, ret |-> {}]
       ELSE [raised |-> FALSE, ret |-> IntersectLoop(b.m, q.tags, TRUE, {})]

\* Prune with the kept records in the opposite order.
Prune_Reversed(recs) ==
  LET kept == SelectSeq(recs, LAMBDA f : f.file_exists) IN
  [records   |-> [k \in 1..Len(kept) |-> kept[Len(kept) + 1 - k]],
   not_found |-> Cardinality({i \in 1..Len(recs) : ~recs[i].file_exists})]

\* TagsForFiles.prune: the records kept and not_found.
Prune(recs) ==
  [records   |-> SelectSeq(recs, LAMBDA f : f.file_exists),
   not_found |-> Cardinality({i \in 1..Len(recs) : ~recs[i].file_exists})]

\* clean_all_tags that makes a tag of the path of a record as well.
CleanAllTags_Paths(recs) ==
  [i \in 1..Len(recs) |->
     [recs[i] EXCEPT !.tags = {transform_to_tag(t) : t \in recs[i].tags},
                     !.path = transform_to_tag(@)]]

\* TagsForFiles.clean_all_tags
CleanAllTags(recs) ==
  [i \in 1..Len(recs) |->
     [recs[i] EXCEPT !.tags = {transform_to_tag(t) : t \in recs[i].tags}]]

\* The record loop of replace_tag without the removal of target.
ReplaceInRecords_KeepsTarget(recs, target, repl) ==
  [i \in 1..Len(recs) |->
     IF target \in recs[i].tags
     THEN [recs[i] EXCEPT !.tags = @ \cup {repl}]
     ELSE recs[i]]

\* The record loop of replace_tag
ReplaceInRecords(recs, target, repl) ==
  [i \in 1..Len(recs) |->
     IF target \in recs[i].tags
     THEN [recs[i] EXCEPT !.tags = (@ \ {target}) \cup {repl}]
     ELSE recs[i]]

\* The update of self.tags in replace_tag
ReplaceInTags(tagset, target, repl) ==
  IF target \in tagset THEN (tagset \ {target}) \cup {repl} ELSE tagset

\* What TinyTag.get(pathname) does under the tag reader env: it raises
\* TinyTagException, raises another exception (the file cannot be opened or
\* read), or returns the tag object.  A field is <<>> for None, <<s>> for s.
TinyTagGet(env, pathname) ==
  IF pathname \in env.tinytag_exception THEN [kind |-> "TinyTagException"]
  ELSE IF pathname \in env.other_exception THEN [kind |-> "Exception"]
  ELSE [kind |-> "tag", tag |-> env.tag]

\* One field of Util.extract_tags: out.add(key + transform_to_tag(field))
TagField(key, field) ==
  IF field # <<>> /\ Len(field[1]) > 0
  THEN {key \o transform_to_tag(field[1])} ELSE {}

\* Util.extract_tags: only TinyTagException is caught.
extract_tags(env, pathname) ==
  LET got == TinyTagGet(env, pathname) IN
  IF got.kind = "TinyTagException" THEN [raised |-> FALSE, out |-> {}]
  ELSE IF got.kind = "Exception" THEN [raised |-> TRUE, out |-> {}]
  ELSE [raised |-> FALSE,
        out |-> TagField(<<"a", "r", "t", "i", "s", "t", "=">>, got.tag.artist)
           \cup TagField(<<"y", "e", "a", "r", "=">>, got.tag.year)
           \cup TagField(<<"a", "l", "b", "u", "m", "=">>, got.tag.album)
           \cup TagField(<<"t", "i", "t", "l", "e", "=">>, got.tag.title)]

\* The loop of extract_all_tags from record i on; visited lists the records
\* whose iteration ran to its end.
RECURSIVE ExtractLoop(_, _, _)
ExtractLoop(env, i, st) ==
  IF i > Len(st.records) THEN st
  ELSE LET f == st.records[i] IN
       IF ~f.file_exists
       THEN ExtractLoop(env, i + 1, [st EXCEPT !.visited = Append(@, i)])
       ELSE LET new_tags == extract_tags(env, f.path) IN
            IF new_tags.raised THEN [st EXCEPT !.raised = TRUE]
            ELSE ExtractLoop(env, i + 1,
                   [st EXCEPT !.records[i].tags = @ \cup new_tags.out,
                              !.visited = Append(@, i)])

\* TagsForFiles.extract_all_tags
ExtractAllTags(recs, env) ==
  ExtractLoop(env, 1, [records |-> recs, visited |-> <<>>, raised |-> FALSE])

\* main_data_directory, the base directory given on the command line
main_data_directory == <<"m">>

\* file_dir of move_if_tagged
file_dir(os, path) ==
  LET parts == split_sep(os_path_dirname(os, path), "\\") IN parts[Len(parts)]

\* to_move of move_if_tagged, as positions in file_records
to_move_of(os, recs, ttag, ddir) ==
  SelectSeq([i \in 1..Len(recs) |-> i],
            LAMBDA i : ttag \in recs[i].tags /\ file_dir(os, recs[i].path) # ddir)

\* MoveOne without the test for an existing destination: the file is moved
\* over it.
MoveOne_Overwrite(os, st, dest_folder, i) ==
  LET f   == st.records[i]
      src == f.path
      dst == os_path_join2(os, dest_folder, os_path_split(os, f.path)[2])
  IN  IF src \notin st.files
      THEN [st EXCEPT !.outcomes = Append(@, "raised"), !.raised = TRUE]
      ELSE [st EXCEPT !.files = (@ \ {src}) \cup {dst},
                      !.n_moved = @ + 1,
                      !.records[i].path = dst,
                      !.outcomes = Append(@, "moved")]

\* The body of the second loop of move_if_tagged for the record at position
\* i.  shutil.move raises when src does not exist.
MoveOne(os, st, dest_folder, i) ==
  LET f         == st.records[i]
      file_name == os_path_split(os, f.path)[2]
      src       == f.path
      dst       == os_path_join2(os, dest_folder, file_name)
  IN  IF os_path_exists(st.files, st.dirs, dst)
      THEN [st EXCEPT !.outcomes = Append(@, "exists")]
      ELSE IF src \notin st.files
      THEN [st EXCEPT !.outcomes = Append(@, "raised"), !.raised = TRUE]
      ELSE [st EXCEPT !.files = (@ \ {src}) \cup {dst},
                      !.n_moved = @ + 1,
                      !.records[i].path = dst,
                      !.outcomes = Append(@, "moved")]

\* The second loop of move_if_tagged, left at the first exception.
RECURSIVE MoveLoop(_, _, _, _)
MoveLoop(os, st, dest_folder, to_move) ==
  IF to_move = <<>> \/ st.raised THEN st
  ELSE MoveLoop(os, MoveOne(os, st, dest_folder, Head(to_move)),
                dest_folder, Tail(to_move))

\* TagsForFiles.move_if_tagged
MoveIfTagged(os, recs, fs_files, fs_dirs, ttag, ddir) ==
  LET dest_folder == os_path_join2(os, main_data_directory, ddir)
      made        == IF os_path_exists(fs_files, fs_dirs, dest_folder)
                     THEN fs_dirs ELSE fs_dirs \cup {dest_folder}
      to_move     == to_move_of(os, recs, ttag, ddir)
      r           == MoveLoop(os, [records |-> recs, files |-> fs_files,
                                   dirs |-> made, n_moved |-> 0,
                                   outcomes |-> <<>>, raised |-> FALSE],
                              dest_folder, to_move)
  IN  [records |-> r.records, files |-> r.files, dirs |-> r.dirs,
       n_moved |-> r.n_moved, outcomes |-> r.outcomes, raised |-> r.raised,
       to_move |-> to_move]

\* file_records.sort(key=lambda r: r.path): a stable sort
RECURSIVE SortByPath(_)
SortByPath(recs) ==
  IF recs = <<>> THEN <<>>
  ELSE LET n      == Len(recs)
           r      == recs[n]
           sorted == SortByPath(SubSeq(recs, 1, n - 1))
           k      == Cardinality({j \in 1..(n - 1) :
                                    ~StrLess(r.path, sorted[j].path)})
       IN  SubSeq(sorted, 1, k) \o <<r>> \o SubSeq(sorted, k + 1, n - 1)

\* tags_list = list(tags); tags_list.sort()
RECURSIVE SortTags(_)
SortTags(S) ==
  IF S = {} THEN <<>>
  ELSE LET t == CHOOSE x \in S : \A u \in S \ {x} : StrLess(x, u)
       IN  <<t>> \o SortTags(S \ {t})

\* the column width write_file_records_to_file wraps the tags to
WrapColumns == 72

\* print(s, file=file) for every string of a list
RECURSIVE PrintAll(_)
PrintAll(list) ==
  IF list = <<>> THEN <<>>
  ELSE Head(list) \o <<"\n">> \o PrintAll(Tail(list))

\* What write_file_records_to_file prints for one record
RecordText(f) ==
  PrintAll(<<f.path>>) \o PrintAll(f.comments)
  \o PrintAll(<<paragraph_wrap(join(<<" ">>, SortTags(f.tags)), WrapColumns)>>)
  \o PrintAll(<< <<>> >>)

\* The print loop of write_file_records_to_file
RECURSIVE FileText(_)
FileText(recs) ==
  IF recs = <<>> THEN <<>> ELSE RecordText(Head(recs)) \o FileText(Tail(recs))

\* write_file_records_to_file that numbers the sorted records anew.
WriteFileRecords_Renumbers(recs) ==
  LET sorted == SortByPath(recs) IN
  [records |-> [i \in 1..Len(sorted) |-> [sorted[i] EXCEPT !.id = i - 1]],
   text |-> FileText(sorted)]

\* TagsForFiles.write_file_records_to_file: the records afterwards and the
\* text of the file written.
WriteFileRecords(recs) ==
  LET sorted == SortByPath(recs) IN [records |-> sorted, text |-> FileText(sorted)]

\* file.readlines(): the lines of a text, each with its newline
RECURSIVE ReadLines(_, _)
ReadLines(text, cur) ==
  IF text = <<>> THEN (IF cur = <<>> THEN <<>> ELSE <<cur>>)
  ELSE IF Head(text) = "\n"
       THEN <<Append(cur, "\n")>> \o ReadLines(Tail(text), <<>>)
       ELSE ReadLines(Tail(text), Append(cur, Head(text)))

readlines(text) == ReadLines(text, <<>>)

(***************************************************************************)
(* Inputs                                                                  *)
(***************************************************************************)

\* the most comment lines a record is let grow to
MaxComments == 1

\* the platforms the program is run on
Platforms == {"posix"}

\* a line as readlines gives it
Ln(s) == s \o <<"\n">>

to_delete == <<"t", "o", "-", "d", "e", "l", "e", "t", "e">>
dot_trash == <<".", "t", "r", "a", "s", "h">>
TagRock   == <<"R", "o", "c", "k">>
TagLower  == <<"r", "o", "c", "k">>
TagA      == <<"a">>
TagHash   == <<"#", "b">>
TagBang   == <<"!">>
TagNone   == <<"z", "z">>

\* <main_data_directory>/<d>/<n> as the platform writes it
PathIn(os, d, n) == os_path_join3(os, main_data_directory, d, n)

PathAX(os) == PathIn(os, <<"a">>, <<"x">>)
PathAY(os) == PathIn(os, <<"a">>, <<"y">>)
PathBY(os) == PathIn(os, <<"b">>, <<"y">>)
PathBZ(os) == PathIn(os, <<"b">>, <<"z">>)
PathTX(os) == PathIn(os, dot_trash, <<"x">>)
PathTY(os) == PathIn(os, dot_trash, <<"y">>)

\* The files on disk at the start: a/x and a/y, and an x already in .trash.
InitFiles(os) == {PathAX(os), PathAY(os), PathTX(os)}

InitDirs(os) ==
  {main_data_directory,
   os_path_join2(os, main_data_directory, <<"a">>),
   os_path_join2(os, main_data_directory, dot_trash)}

\* The tag file read by import_text_data: four records, of which b/z and
\* .trash/y name no file on disk.
Text1(os) ==
  <<Ln(PathBZ(os)), Ln(to_delete), Ln(<<>>),
    Ln(PathAX(os)), Ln(<<"#", " ", "c">>),
    Ln(to_delete \o <<" ">> \o TagRock), Ln(<<>>),
    Ln(PathAY(os)), Ln(<<" ">> \o to_delete \o <<" ">> \o TagBang),
    Ln(<<" ">>),
    Ln(PathTY(os)), Ln(TagA \o <<" ", " ">> \o TagHash)>>

Texts(os) == {Text1(os)}

\* The paths given to add_path directly.
AddPaths(os) == {PathBY(os)}

\* The tag readers: every file carries the artist "Ab" and an empty title; or
\* the files carry no field and a/x is a file TinyTag rejects, or a file that
\* cannot be read.
ArtistAb ==
  [artist |-> << <<"A", "b">> >>, year |-> <<>>, album |-> <<>>,
   title |-> << <<>> >>]

NoFields ==
  [artist |-> <<>>, year |-> <<>>, album |-> <<>>, title |-> <<>>]

TagReaders(os) ==
  {[tinytag_exception |-> {}, other_exception |-> {}, tag |-> ArtistAb],
   [tinytag_exception |-> {PathAX(os)}, other_exception |-> {},
    tag |-> NoFields],
   [tinytag_exception |-> {}, other_exception |-> {PathAX(os)},
    tag |-> NoFields]}

\* The arguments of replace_tag.
ReplaceArgs == {<<TagRock, to_delete>>}

\* The arguments of move_if_tagged: those of delete().
MoveArgs == {<<to_delete, dot_trash>>}

\* The calls of get_matching_tagged_files; the field none says that tags is
\* None.
Queries ==
  {[none |-> TRUE, tags |-> {}, only_existing |-> FALSE],
   [none |-> FALSE, tags |-> {}, only_existing |-> FALSE],
   [none |-> FALSE, tags |-> {to_delete}, only_existing |-> TRUE],
   [none |-> FALSE, tags |-> {to_delete, TagRock}, only_existing |-> FALSE],
   [none |-> FALSE, tags |-> {TagLower}, only_existing |-> FALSE],
   [none |-> FALSE, tags |-> {to_delete, TagNone}, only_existing |-> FALSE]}

(***************************************************************************)
(* The index as a state machine                                            *)
(***************************************************************************)

\* TagsForFiles.__init__, on a disk that holds the media files
Init ==
  /\ os_name \in Platforms
  /\ files = InitFiles(os_name)
  /\ dirs = InitDirs(os_name)
  /\ file_records = <<>>
  /\ tags = {}
  /\ last = [op |-> "init"]

\* No record holds more than MaxComments comment lines.
WithinBounds(recs) ==
  \A i \in 1..Len(recs) : Len(recs[i].comments) <= MaxComments

add_path(path) ==
  LET a == AddPath(file_records, files, dirs, path) IN
  /\ file_records' = a.records
  /\ last' = [op |-> "add_path", arg |-> path, index |-> a.index]
  /\ UNCHANGED <<os_name, files, dirs, tags>>

import_text_data(text_data) ==
  LET r == ImportTextData(file_records, tags, files, dirs, text_data) IN
  /\ file_records' = r.records
  /\ tags' = r.tags
  /\ last' = [op |-> "import_text_data", arg |-> text_data,
              raised |-> r.raised]
  /\ UNCHANGED <<os_name, files, dirs>>

get_matching_tagged_files(q) ==
  LET r == GetMatchingTaggedFiles(file_records, tags, q, q.only_existing) IN
  /\ last' = [op |-> "get_matching_tagged_files", arg |-> q,
              raised |-> r.raised, ret |-> r.ret]
  /\ UNCHANGED <<os_name, files, dirs, file_records, tags>>

prune ==
  LET r == Prune(file_records) IN
  /\ file_records' = r.records
  /\ last' = [op |-> "prune", not_found |-> r.not_found]
  /\ UNCHANGED <<os_name, files, dirs, tags>>

write_file_records_to_file ==
  LET r == WriteFileRecords(file_records) IN
  /\ file_records' = r.records
  /\ last' = [op |-> "write_file_records_to_file", text |-> r.text]
  /\ UNCHANGED <<os_name, files, dirs, tags>>

move_if_tagged(ttag, ddir) ==
  LET r == MoveIfTagged(os_name, file_records, files, dirs, ttag, ddir) IN
  /\ file_records' = r.records
  /\ files' = r.files
  /\ dirs' = r.dirs
  /\ last' = [op |-> "move_if_tagged", ttag |-> ttag, ddir |-> ddir,
              to_move |-> r.to_move, outcomes |-> r.outcomes,
              n_moved |-> r.n_moved, raised |-> r.raised]
  /\ UNCHANGED <<os_name, tags>>

extract_all_tags(env) ==
  LET r == ExtractAllTags(file_records, env) IN
  /\ file_records' = r.records
  /\ last' = [op |-> "extract_all_tags", visited |-> r.visited,
              raised |-> r.raised]
  /\ UNCHANGED <<os_name, files, dirs, tags>>

clean_all_tags ==
  /\ file_records' = CleanAllTags(file_records)
  /\ last' = [op |-> "clean_all_tags"]
  /\ UNCHANGED <<os_name, files, dirs, tags>>

replace_tag(target, repl) ==
  /\ file_records' = ReplaceInRecords(file_records, target, repl)
  /\ tags' = ReplaceInTags(tags, target, repl)
  /\ last' = [op |-> "replace_tag", target |-> target, replace |-> repl]
  /\ UNCHANGED <<os_name, files, dirs>>

Next ==
  \/ \E path \in AddPaths(os_name) : add_path(path)
  \/ \E text_data \in Texts(os_name) :
       import_text_data(text_data) /\ WithinBounds(file_records')
  \/ \E q \in Queries : get_matching_tagged_files(q)
  \/ prune
  \/ write_file_records_to_file
  \/ \E a \in MoveArgs : move_if_tagged(a[1], a[2])
  \/ \E env \in TagReaders(os_name) : extract_all_tags(env)
  \/ clean_all_tags
  \/ \E a \in ReplaceArgs : replace_tag(a[1], a[2])

Spec == Init /\ [][Next]_vars

\* The index under import_text_data, extract_all_tags, clean_all_tags,
\* replace_tag, prune and move_if_tagged, and the queries made of it.
NextQuery ==
  \/ \E text_data \in Texts(os_name) :
       import_text_data(text_data) /\ WithinBounds(file_records')
  \/ \E env \in TagReaders(os_name) : extract_all_tags(env)
  \/ clean_all_tags
  \/ \E a \in ReplaceArgs : replace_tag(a[1], a[2])
  \/ prune
  \/ \E a \in MoveArgs : move_if_tagged(a[1], a[2])
  \/ \E q \in Queries : get_matching_tagged_files(q)

SpecQuery == Init /\ [][NextQuery]_vars

\* The paths given to add_path when only records are added and pruned.
IdPaths(os) == {PathAX(os), PathAY(os), PathBY(os), PathTX(os)}

\* The index under add_path, import_text_data and prune alone.
NextIds ==
  \/ \E path \in IdPaths(os_name) : add_path(path)
  \/ \E text_data \in Texts(os_name) :
       import_text_data(text_data) /\ WithinBounds(file_records')
  \/ prune

SpecIds == Init /\ [][NextIds]_vars

(***************************************************************************)
(* Properties of the index                                                 *)
(***************************************************************************)

\* The positions of the records a query for the tags T has to return.
Matching(T, only_existing) ==
  {i \in 1..Len(file_records) :
     /\ T \subseteq file_records[i].tags
     /\ only_existing => file_records[i].file_exists}

\* C1: in every reachable index state, get_matching_tagged_files(T) completes
\* without raising and returns exactly the paths of the records (the existing
\* ones under only_existing) whose tag set includes T; it returns nothing
\* when T is empty or None, and nothing when a tag of T is not in the index.
C1_MatchingTaggedFiles ==
  last.op = "get_matching_tagged_files" =>
    /\ ~last.raised
    /\ last.ret =
         IF last.arg.none \/ last.arg.tags = {}
            \/ ~(last.arg.tags \subseteq tags)
         THEN {}
         ELSE {file_records[i].path :
                 i \in Matching(last.arg.tags, last.arg.only_existing)}

\* C2: the global tag set of the index contains every tag of every record.
C2_TagsSuperset ==
  \A i \in 1..Len(file_records) : file_records[i].tags \subseteq tags

\* C3: no two records of the index have the same path.
C3_UniquePaths ==
  \A i, j \in 1..Len(file_records) :
    i # j => file_records[i].path # file_records[j].path

\* The (path, tag set, comment list) of every record.
Triples(recs) ==
  {<<recs[i].path, recs[i].tags, recs[i].comments>> : i \in 1..Len(recs)}

\* C4: importing the lines written by write_file_records_to_file into an
\* empty index yields the same (path, tag set, comment list) for every
\* record, up to record order.
C4_RoundTrip ==
  last.op = "write_file_records_to_file" =>
    Triples(ImportTextData(<<>>, {}, files, dirs,
                           readlines(last.text)).records)
      = Triples(file_records)

\* dst of move_if_tagged(ttag, ddir) for the record at position i
Destination(ddir, i) ==
  os_path_join2(os_name, os_path_join2(os_name, main_data_directory, ddir),
                os_path_split(os_name, file_records[i].path)[2])

\* The k-th selected record of the move just made met an existing
\* destination: the file was there before the call, or the loop found it.
Collided(k) ==
  /\ k <= Len(last'.outcomes)
  /\ \/ last'.outcomes[k] = "exists"
     \/ os_path_exists(files, dirs, Destination(last'.ddir, last'.to_move[k]))

\* The selected records whose path the move just made has changed.
PathChanged ==
  {k \in 1..Len(last'.to_move) :
     file_records'[last'.to_move[k]].path # file_records[last'.to_move[k]].path}

C7_Step ==
  last'.op = "move_if_tagged" =>
    /\ \A k \in 1..Len(last'.to_move) :
         Collided(k) =>
           LET i == last'.to_move[k] IN
           /\ last'.outcomes[k] = "exists"
           /\ file_records'[i].path = file_records[i].path
           /\ file_records[i].path \in files =>
                \/ file_records[i].path \in files'
                \/ \E n \in PathChanged :
                     file_records[last'.to_move[n]].path = file_records[i].path
           /\ file_records[i].path \notin files =>
                file_records[i].path \notin files'
           /\ os_path_exists(files', dirs', Destination(last'.ddir, i))
           /\ k < Len(last'.to_move) => Len(last'.outcomes) > k
    /\ last'.n_moved = Cardinality(PathChanged)

\* C7: in move_if_tagged, a selected record whose destination path already
\* exists is not moved: its source and destination files stay, its path is
\* unchanged, it is not counted in n_moved, and the loop goes on to the next
\* selected record.
C7_CollisionSkipped == [][C7_Step]_vars

\* A move in which a record met an existing destination and the next selected
\* record was moved.
C7_Witness ==
  /\ last.op = "move_if_tagged"
  /\ \E k \in 1..(Len(last.outcomes) - 1) :
       last.outcomes[k] = "exists" /\ last.outcomes[k + 1] = "moved"

\* C8: a failing item does not abort a bulk operation: move_if_tagged and
\* extract_all_tags process every record they have to, whatever fails for
\* one of them.
C8_NoAbort ==
  /\ last.op = "move_if_tagged" =>
       ~last.raised /\ Len(last.outcomes) = Len(last.to_move)
  /\ last.op = "extract_all_tags" =>
       ~last.raised /\ Len(last.visited) = Len(file_records)

\* C9: record ids are pairwise distinct and strictly increasing in record
\* order after any sequence of add_path, import_text_data and prune.
C9_IdsIncreasing ==
  \A i, j \in 1..Len(file_records) :
    i < j => file_records[i].id < file_records[j].id

(***************************************************************************)
(* import_text_data on every short text                                    *)
(***************************************************************************)

\* the most lines of a text given to import_text_data
MaxLines == 4

\* The lines the texts are made of: an empty line, a line of blanks, a
\* comment with blanks around it, a path with blanks around it, a line of
\* two words and a line of one.
ImportLines(os) ==
  {Ln(<<>>), Ln(<<" ", "\t">>), Ln(<<" ", "#", " ", "c", " ">>),
   Ln(<<" ">> \o PathAX(os) \o <<" ">>),
   Ln(<<"x", " ", " ", "y">>), Ln(<<"y">>)}

\* all sequences of at most n elements of S
RECURSIVE SeqsUpTo(_, _)
SeqsUpTo(S, n) ==
  IF n = 0 THEN {<<>>}
  ELSE LET shorter == SeqsUpTo(S, n - 1) IN
       shorter \cup {Append(t, x) : t \in {u \in shorter : Len(u) = n - 1},
                                    x \in S}

ImportTexts(os) == SeqsUpTo(ImportLines(os), MaxLines) \ {<<>>}

\* The index a text is read into: new, or holding the records of Text1.
InitImport ==
  /\ os_name \in Platforms
  /\ files = InitFiles(os_name)
  /\ dirs = InitDirs(os_name)
  /\ \E seed \in {<<>>, Text1(os_name)} :
       LET r == ImportTextData(<<>>, {}, files, dirs, seed) IN
       file_records = r.records /\ tags = r.tags
  /\ last = [op |-> "init"]

\* One text is read into each index.
NextImport ==
  /\ last.op = "init"
  /\ \E text_data \in ImportTexts(os_name) : import_text_data(text_data)

SpecImport == InitImport /\ [][NextImport]_vars

\* The grammar of the tag file, line by line.
Trimmed(line) ==
  LET ink == {i \in 1..Len(line) : line[i] \notin Whitespace} IN
  IF ink = {} THEN <<>>
  ELSE SubSeq(line, CHOOSE i \in ink : \A j \in ink : i <= j,
                    CHOOSE i \in ink : \A j \in ink : i >= j)

IsBlank(line) == Trimmed(line) = <<>>
IsComment(line) == ~IsBlank(line) /\ Trimmed(line)[1] = "#"
IsData(line) == ~IsBlank(line) /\ ~IsComment(line)

\* The path line that is open at line k of the text: the first data line
\* after the last blank line before k; 0 when there is none.
OpenPath(text, k) ==
  LET blanks == {b \in 1..(k - 1) : IsBlank(text[b])}
      from   == IF blanks = {} THEN 0
                ELSE CHOOSE b \in blanks : \A c \in blanks : c <= b
      data   == {d \in (from + 1)..(k - 1) : IsData(text[d])}
  IN  IF data = {} THEN 0 ELSE CHOOSE d \in data : \A e \in data : d <= e

IsPathLine(text, k) == IsData(text[k]) /\ OpenPath(text, k) = 0
IsTagLine(text, k) == IsData(text[k]) /\ OpenPath(text, k) # 0

\* the words of a line: its longest runs without whitespace
Words(line) ==
  {SubSeq(line, r[1], r[2]) :
     r \in {q \in (1..Len(line)) \X (1..Len(line)) :
              /\ q[1] <= q[2]
              /\ \A n \in q[1]..q[2] : line[n] \notin Whitespace
              /\ q[1] = 1 \/ line[q[1] - 1] \in Whitespace
              /\ q[2] = Len(line) \/ line[q[2] + 1] \in Whitespace}}

\* The tags and the comments the text gives to the record of path p.
TagsFor(text, p) ==
  UNION {Words(text[k]) :
         k \in {n \in 1..Len(text) :
                  IsTagLine(text, n) /\ Trimmed(text[OpenPath(text, n)]) = p}}

CommentsFor(text, p) ==
  LET at == SelectSeq([k \in 1..Len(text) |-> k],
                      LAMBDA k : /\ IsComment(text[k])
                                 /\ OpenPath(text, k) # 0
                                 /\ Trimmed(text[OpenPath(text, k)]) = p)
  IN  [n \in 1..Len(at) |-> Trimmed(text[at[n]])]

\* the line at which the text first names the path p
FirstNamed(text, p) ==
  CHOOSE k \in 1..Len(text) :
    /\ IsPathLine(text, k) /\ Trimmed(text[k]) = p
    /\ \A n \in 1..(k - 1) : ~(IsPathLine(text, n) /\ Trimmed(text[n]) = p)

C10_Step ==
  last'.op = "import_text_data" =>
    LET text  == last'.arg
        named == {Trimmed(text[k]) :
                    k \in {n \in 1..Len(text) : IsPathLine(text, n)}}
        known == {file_records[i].path : i \in 1..Len(file_records)}
        old   == Len(file_records)
    IN
    /\ ~last'.raised
    /\ Len(file_records') = old + Cardinality(named \ known)
    /\ \A i \in 1..Len(file_records') :
         LET f == file_records'[i]
             merged == \A n \in 1..(i - 1) : file_records'[n].path # f.path
         IN
         /\ i <= old =>
              /\ f.id = file_records[i].id
              /\ f.path = file_records[i].path
              /\ f.file_exists = file_records[i].file_exists
              /\ f.tags = file_records[i].tags \cup
                            (IF merged THEN TagsFor(text, f.path) ELSE {})
              /\ f.comments = file_records[i].comments \o
                            (IF merged THEN CommentsFor(text, f.path)
                             ELSE <<>>)
         /\ i > old =>
              /\ f.id = i - 1
              /\ f.path \in named \ known
              /\ f.file_exists = os_path_exists(files, dirs, f.path)
              /\ f.tags = TagsFor(text, f.path)
              /\ f.comments = CommentsFor(text, f.path)
              /\ \A n \in (old + 1)..(i - 1) :
                   FirstNamed(text, file_records'[n].path) <
                     FirstNamed(text, f.path)
    /\ tags' = tags \cup UNION {TagsFor(text, p) : p \in named}

\* C10: import_text_data reads its lines as the grammar of the tag file says:
\* a blank line closes the open record; the first data line after the start
\* or a blank line names a path, resolved by add_path; every later data line
\* before the next blank line adds its words to the tags of that record and
\* to the global tags; a comment line is appended to the comments of the open
\* record and is dropped when no record is open; and no text makes it raise.
C10_ImportGrammar == [][C10_Step]_vars

\* A text that starts with a comment line, which is dropped, and then names
\* a new path and gives it a comment and two tags.
C10_Witness ==
  /\ last.op = "import_text_data"
  /\ IsComment(last.arg[1])
  /\ Len(file_records) = 1
  /\ file_records[1].path = PathAX(os_name)
  /\ file_records[1].comments = << <<"#", " ", "c">> >>
  /\ file_records[1].tags = {<<"x">>, <<"y">>}

(***************************************************************************)
(* Util.transform_to_tag and Util.paragraph_wrap on bounded inputs         *)
(***************************************************************************)

\* the longest text made of any characters of TextChars
MaxLen == 4
\* the longest run of one character
MaxRun == 40
\* the widest column count given to paragraph_wrap, the one of the unit test
\* apart
MaxWidth == 3

TextChars == {"A", "-", " "}

\* The text and the column count of the unit test of paragraph_wrap.
TestText ==
  <<"e", "n", "g", "l", "a", "n", "d", " ", "e", "x", "p", "e", "c", "t", "s",
    " ", " ", " ", " ", " ", "e", "v", "e", "r", "y", " ", " ", " ", " ",
    "m", "a", "n", " ", "t", "o", " ", " ", " ", " ", "d", "o", " ",
    "h", "i", "s", " ", " ", " ", " ", " ", "d", "u", "t", "y">>
TestColumns == 20

UtilTexts ==
  UNION {[1..n -> TextChars] : n \in 0..MaxLen}
    \cup {Rep("-", n) : n \in 1..MaxRun}
    \cup {Rep(" ", n) : n \in 1..MaxRun}
    \cup {TestText}

Widths == (1..MaxWidth) \cup {TestColumns}

\* A text and a column count are chosen; the index is new.
InitUtil ==
  /\ os_name \in Platforms
  /\ files = InitFiles(os_name)
  /\ dirs = InitDirs(os_name)
  /\ file_records = <<>>
  /\ tags = {}
  /\ last \in [op : {"input"}, text : UtilTexts, num_columns : Widths]

\* Util.transform_to_tag(last.text) is called.
transform_to_tag_call ==
  /\ last.op = "input"
  /\ last' = [op |-> "transform_to_tag", arg |-> last.text,
              ret |-> transform_to_tag(last.text)]
  /\ UNCHANGED <<os_name, files, dirs, file_records, tags>>

\* Util.paragraph_wrap(last.text, last.num_columns) is called.
paragraph_wrap_call ==
  /\ last.op = "input"
  /\ last' = [op |-> "paragraph_wrap", arg |-> last.text,
              num_columns |-> last.num_columns,
              out_list |-> wrap_out_list(last.text, last.num_columns),
              ret |-> paragraph_wrap(last.text, last.num_columns)]
  /\ UNCHANGED <<os_name, files, dirs, file_records, tags>>

\* The text is read as the tag line of the record of a/x.
import_tag_line ==
  /\ last.op = "input"
  /\ import_text_data(<<Ln(PathAX(os_name)), Ln(last.text)>>)

NextUtil ==
  \/ transform_to_tag_call
  \/ paragraph_wrap_call
  \/ import_tag_line
  \/ clean_all_tags

SpecUtil == InitUtil /\ [][NextUtil]_vars

\* C5: transform_to_tag is idempotent, whatever the length of the runs of
\* hyphens or spaces in its argument, and so clean_all_tags applied a second
\* time changes no tag set.
C5_Idempotent ==
  /\ last.op = "transform_to_tag" => transform_to_tag(last.ret) = last.ret
  /\ last.op = "clean_all_tags" => CleanAllTags(file_records) = file_records

\* the tokens of a text: its longest runs without a space, in order
TokensOf(text) ==
  LET starts == SelectSeq([i \in 1..Len(text) |-> i],
                          LAMBDA i : /\ text[i] # " "
                                     /\ i = 1 \/ text[i - 1] = " ")
      end(i) == CHOOSE j \in i..Len(text) :
                  /\ \A n \in i..j : text[n] # " "
                  /\ j = Len(text) \/ text[j + 1] = " "
  IN  [k \in 1..Len(starts) |-> SubSeq(text, starts[k], end(starts[k]))]

\* all the elements of a sequence of sequences, in order
RECURSIVE Flatten(_)
Flatten(ss) == IF ss = <<>> THEN <<>> ELSE Head(ss) \o Flatten(Tail(ss))

\* C6: the lines paragraph_wrap returns hold, in order, exactly the tokens of
\* the text; each line is its tokens joined by single spaces, so it is not
\* empty and neither starts nor ends with whitespace, also when a token is
\* as long as the width or longer.
C6_WrapLines ==
  last.op = "paragraph_wrap" =>
    LET lines == last.out_list IN
    /\ last.ret = join(<<"\n">>, lines)
    /\ Flatten([n \in 1..Len(lines) |-> TokensOf(lines[n])]) =
         TokensOf(last.arg)
    /\ \A n \in 1..Len(lines) :
         /\ lines[n] # <<>>
         /\ lines[n] = join(<<" ">>, TokensOf(lines[n]))

(***************************************************************************)
(* Properties of prune, replace_tag and the other index operations         *)
(***************************************************************************)

\* the position in recs of its k-th record whose exists flag is set
KthExisting(recs, k) ==
  CHOOSE i \in 1..Len(recs) :
    /\ recs[i].file_exists
    /\ Cardinality({j \in 1..i : recs[j].file_exists}) = k

C11_Step ==
  last'.op = "prune" =>
    LET existing == {i \in 1..Len(file_records) : file_records[i].file_exists}
    IN
    /\ Len(file_records') = Cardinality(existing)
    /\ \A k \in 1..Len(file_records') :
         file_records'[k] = file_records[KthExisting(file_records, k)]
    /\ last'.not_found = Len(file_records) - Len(file_records')
    /\ last'.not_found =
         Cardinality({i \in 1..Len(file_records) :
                        ~file_records[i].file_exists})

\* C11: prune removes exactly the records whose exists flag is false: the
\* records afterwards are the records that existed, in their relative order
\* and unchanged, and the count of pruned records is the count of removed
\* ones.
C11_PruneExact == [][C11_Step]_vars

\* A prune that has removed two records and kept two with different ids.
C11_Witness ==
  /\ last.op = "prune"
  /\ last.not_found = 2
  /\ Len(file_records) = 2
  /\ file_records[1].path # file_records[2].path

\* The tags given to replace_tag: tags of the records of Text1, the tag
\* extract_all_tags makes of the artist "Ab", and a tag no record has.
TagArtistAb == <<"a", "r", "t", "i", "s", "t", "=", "a", "b">>
ReplaceTags == {to_delete, TagRock, TagA, TagArtistAb, TagNone}

\* The index replace_tag is called on: the records of Text1, as read or after
\* extract_all_tags has added the artist to the records of the two files.
InitReplace ==
  /\ os_name \in Platforms
  /\ files = InitFiles(os_name)
  /\ dirs = InitDirs(os_name)
  /\ LET r == ImportTextData(<<>>, {}, files, dirs, Text1(os_name))
         env == [tinytag_exception |-> {}, other_exception |-> {},
                 tag |-> ArtistAb]
     IN  /\ tags = r.tags
         /\ file_records \in {r.records, ExtractAllTags(r.records, env).records}
  /\ last = [op |-> "init"]

NextReplace ==
  \E target \in ReplaceTags, repl \in ReplaceTags : replace_tag(target, repl)

SpecReplace == InitReplace /\ [][NextReplace]_vars

C12_Step ==
  last'.op = "replace_tag" =>
    LET old == last'.target
        new == last'.replace
    IN
    /\ Len(file_records') = Len(file_records)
    /\ \A i \in 1..Len(file_records) :
         IF old \in file_records[i].tags
         THEN /\ new \in file_records'[i].tags
              /\ old # new => old \notin file_records'[i].tags
              /\ file_records'[i].tags \ {old, new} =
                   file_records[i].tags \ {old, new}
              /\ file_records'[i] =
                   [file_records[i] EXCEPT !.tags = file_records'[i].tags]
         ELSE file_records'[i] = file_records[i]
    /\ IF old \in tags
       THEN /\ new \in tags'
            /\ old # new => old \notin tags'
            /\ tags' \ {old, new} = tags \ {old, new}
       ELSE tags' = tags

\* C12: after replace_tag(old, new) every record that had old has new and,
\* when old differs from new, not old, its other tags and fields as before;
\* a record without old is unchanged; the global tags change in the same
\* way; a record that had both tags has new once.
C12_ReplaceTag == [][C12_Step]_vars

\* Rock has been replaced by to-delete: the record of a/x, which had both,
\* has to-delete and not Rock, and the record of b/z is as it was read.
C12_Witness ==
  /\ last.op = "replace_tag"
  /\ last.target = TagRock /\ last.replace = to_delete
  /\ \E i, j \in 1..Len(file_records) :
       /\ file_records[i].path = PathAX(os_name)
       /\ to_delete \in file_records[i].tags
       /\ TagRock \notin file_records[i].tags
       /\ file_records[j].path = PathBZ(os_name)
       /\ file_records[j].tags = {to_delete}
  /\ TagRock \notin tags

(***************************************************************************)
(* find_untracked                                                          *)
(***************************************************************************)

\* str.endswith
endswith(s, suffix) ==
  /\ Len(suffix) <= Len(s)
  /\ SubSeq(s, Len(s) - Len(suffix) + 1, Len(s)) = suffix

\* Util.audio_extensions
audio_extensions == <<<<"o", "g", "g">>, <<"w", "a", "v">>, <<"m", "p", "3">>>>

\* Util.ends_with(filename, extensions)
ends_with(filename, extensions) ==
  \E k \in 1..Len(extensions) : endswith(filename, extensions[k])

\* os.path.splitext(p): <<root, ext>>; the extension starts at the last dot
\* when a character other than a dot stands between the last separator and it
os_path_splitext(os, p) ==
  LET sepIndex == LastSep(os, p, Len(p))
      dots     == {i \in 1..Len(p) : p[i] = "."}
      dotIndex == IF dots = {} THEN 0
                  ELSE CHOOSE i \in dots : \A j \in dots : j <= i
  IN  IF /\ dotIndex > sepIndex
         /\ \E n \in (sepIndex + 1)..(dotIndex - 1) : p[n] # "."
      THEN <<SubSeq(p, 1, dotIndex - 1), SubSeq(p, dotIndex, Len(p))>>
      ELSE <<p, <<>>>>

\* The names os.listdir gives for a set of names: in ascending or in
\* descending order of their characters.
RECURSIVE Listed(_, _)
Listed(S, order) ==
  IF S = {} THEN <<>>
  ELSE LET t == CHOOSE x \in S : \A u \in S \ {x} :
                  IF order = "asc" THEN StrLess(x, u) ELSE StrLess(u, x)
       IN  <<t>> \o Listed(S \ {t}, order)

\* the names of the entries of fs that lie in the directory top
NamesIn(os, fs, top) ==
  {os_path_split(os, e)[2] : e \in {x \in fs : os_path_split(os, x)[1] = top}}

\* os.walk(top), top down: one <<dir_path, dir_names, filenames>> for top and
\* then the walks of its subdirectories; nothing when top is no directory.
RECURSIVE Walk(_, _, _, _, _)
RECURSIVE WalkDirs(_, _, _, _, _, _)
Walk(os, fs_files, fs_dirs, top, order) ==
  IF top \notin fs_dirs THEN <<>>
  ELSE LET dir_names == Listed(NamesIn(os, fs_dirs, top), order)
           filenames == Listed(NamesIn(os, fs_files, top), order)
       IN  <<<<top, dir_names, filenames>>>> \o
           WalkDirs(os, fs_files, fs_dirs, top, order, dir_names)

WalkDirs(os, fs_files, fs_dirs, top, order, dir_names) ==
  IF dir_names = <<>> THEN <<>>
  ELSE Walk(os, fs_files, fs_dirs, os_path_join2(os, top, Head(dir_names)),
            order) \o
       WalkDirs(os, fs_files, fs_dirs, top, order, Tail(dir_names))

\* the time of the call as make_time_stamped_file_name writes it
NowStamp == <<"0">>

\* Util.make_time_stamped_file_name(prefix, suffix)
make_time_stamped_file_name(os, prefix, suffix) ==
  os_path_join2(os, main_data_directory,
                prefix \o <<"-">> \o NowStamp \o <<".">> \o suffix)

\* The loop of find_untracked over the filenames of one directory.
RECURSIVE FilenameLoop(_, _, _, _, _, _)
FilenameLoop(os, known_files, extensions, dir_path, filenames, st) ==
  IF filenames = <<>> THEN st
  ELSE LET filename   == Head(filenames)
           path_tuple == os_path_splitext(os, filename)
           ext        == Tail(path_tuple[2])
           found      == IF /\ Len(path_tuple[2]) > 0
                            /\ \A k \in 1..Len(extensions) :
                                 extensions[k] # ext
                         THEN st.found_extensions \cup {ext}
                         ELSE st.found_extensions
           path       == os_path_join2(os, dir_path, filename)
           untracked  == IF /\ ends_with(filename, extensions)
                            /\ path \notin known_files
                         THEN Append(st.untracked_files_list, path)
                         ELSE st.untracked_files_list
       IN  FilenameLoop(os, known_files, extensions, dir_path,
                        Tail(filenames),
                        [untracked_files_list |-> untracked,
                         found_extensions |-> found])

\* The loop of find_untracked over the walk.
RECURSIVE UntrackedLoop(_, _, _, _, _)
UntrackedLoop(os, known_files, extensions, gen, st) ==
  IF gen = <<>> THEN st
  ELSE UntrackedLoop(os, known_files, extensions, Tail(gen),
                     FilenameLoop(os, known_files, extensions,
                                  Head(gen)[1], Head(gen)[3], st))

\* find_untracked without the test for the known files.
FindUntracked_ListsKnown(os, recs, gen, extensions_arg) ==
  LET extensions == IF extensions_arg.none THEN audio_extensions
                    ELSE extensions_arg.value
      st == UntrackedLoop(os, {}, extensions, gen,
                          [untracked_files_list |-> <<>>,
                           found_extensions |-> {}])
  IN  [untracked_files_list |-> st.untracked_files_list,
       found_extensions |-> st.found_extensions,
       extensions |-> extensions,
       filename |-> make_time_stamped_file_name(
                      os, <<"u", "n", "t", "r", "a", "c", "k", "e", "d">>,
                      <<"m", "3", "u">>)]

\* TagsForFiles.find_untracked(data_directory, extensions): an argument is
\* [none |-> TRUE] for None.  gen is what os.walk gives.
FindUntracked(os, recs, gen, extensions_arg) ==
  LET extensions  == IF extensions_arg.none THEN audio_extensions
                     ELSE extensions_arg.value
      known_files == {recs[i].path : i \in 1..Len(recs)}
      st == UntrackedLoop(os, known_files, extensions, gen,
                          [untracked_files_list |-> <<>>,
                           found_extensions |-> {}])
  IN  [untracked_files_list |-> st.untracked_files_list,
       found_extensions |-> st.found_extensions,
       extensions |-> extensions,
       filename |-> make_time_stamped_file_name(
                      os, <<"u", "n", "t", "r", "a", "c", "k", "e", "d">>,
                      <<"m", "3", "u">>)]

\* The tree find_untracked walks: a.mp3 and c.txt in the main directory; in
\* its subdirectory s the files b.mp3, d.ogg, e and .mp3.
DirS   == os_path_join2("posix", main_data_directory, <<"s">>)
DirQ   == os_path_join2("posix", main_data_directory, <<"q">>)
FileA  == os_path_join2("posix", main_data_directory,
                        <<"a", ".", "m", "p", "3">>)
FileC  == os_path_join2("posix", main_data_directory,
                        <<"c", ".", "t", "x", "t">>)
FileB  == os_path_join2("posix", DirS, <<"b", ".", "m", "p", "3">>)
FileD  == os_path_join2("posix", DirS, <<"d", ".", "o", "g", "g">>)
FileE  == os_path_join2("posix", DirS, <<"e">>)
FileDot == os_path_join2("posix", DirS, <<".", "m", "p", "3">>)
FileG  == os_path_join2("posix", DirS, <<"g", ".", "m", "p", "3">>)

\* The tag file of the tree: a.mp3, and g.mp3 which is not on disk.
TextTree == <<Ln(FileA), Ln(TagA), Ln(<<>>), Ln(FileG)>>

\* the arguments of find_untracked
DataDirectories ==
  {[none |-> TRUE, value |-> <<>>], [none |-> FALSE, value |-> DirS],
   [none |-> FALSE, value |-> DirQ]}

ExtensionLists ==
  {[none |-> TRUE, value |-> <<>>],
   [none |-> FALSE, value |-> <<<<"m", "p", "3">>>>],
   [none |-> FALSE, value |-> <<<<"t", "x", "t">>, <<"o", "g", "g">>>>],
   [none |-> FALSE, value |-> <<>>]}

ListOrders == {"asc", "desc"}

InitTree ==
  /\ os_name = "posix"
  /\ files = {FileA, FileC, FileB, FileD, FileE, FileDot}
  /\ dirs = {main_data_directory, DirS}
  /\ file_records = <<>>
  /\ tags = {}
  /\ last = [op |-> "init"]

find_untracked(data_directory_arg, extensions_arg, order) ==
  LET data_directory == IF data_directory_arg.none THEN main_data_directory
                        ELSE data_directory_arg.value
      gen == Walk(os_name, files, dirs, data_directory, order)
      r   == FindUntracked(os_name, file_records, gen, extensions_arg)
  IN  /\ files' = files \cup {r.filename}
      /\ last' = [op |-> "find_untracked", data_directory |-> data_directory,
                  extensions |-> r.extensions, gen |-> gen,
                  untracked_files_list |-> r.untracked_files_list,
                  found_extensions |-> r.found_extensions]
      /\ UNCHANGED <<os_name, dirs, file_records, tags>>

NextTree ==
  \/ import_text_data(TextTree)
  \/ \E path \in {FileB, FileD} : add_path(path)
  \/ prune
  \/ \E d \in DataDirectories, e \in ExtensionLists, order \in ListOrders :
       find_untracked(d, e, order)

SpecTree == InitTree /\ [][NextTree]_vars

\* the extension of a file name: what follows its last dot, when the name
\* has a dot with a character other than a dot before it
ExtensionsOf(name) ==
  {SubSeq(name, d + 1, Len(name)) :
     d \in {i \in 1..Len(name) :
              /\ name[i] = "."
              /\ \A j \in (i + 1)..Len(name) : name[j] # "."
              /\ \E j \in 1..(i - 1) : name[j] # "."}}

\* the files of a walk in walk order, each as <<dir_path, filename>>
WalkedFiles(gen) ==
  Flatten([n \in 1..Len(gen) |->
             [k \in 1..Len(gen[n][3]) |-> <<gen[n][1], gen[n][3][k]>>]])

C13_Step ==
  last'.op = "find_untracked" =>
    LET given  == {last'.extensions[k] : k \in 1..Len(last'.extensions)}
        paths  == {file_records[i].path : i \in 1..Len(file_records)}
        walked == WalkedFiles(last'.gen)
        wanted == SelectSeq(walked,
                    LAMBDA w :
                      /\ \E e \in given : \E n \in 0..Len(w[2]) :
                           SubSeq(w[2], n + 1, Len(w[2])) = e
                      /\ os_path_join2(os_name, w[1], w[2]) \notin paths)
    IN
    /\ last'.untracked_files_list =
         [k \in 1..Len(wanted) |->
            os_path_join2(os_name, wanted[k][1], wanted[k][2])]
    /\ last'.found_extensions =
         UNION {ExtensionsOf(walked[k][2]) : k \in 1..Len(walked)} \ given

\* C13: find_untracked lists, in walk order, exactly the walked paths of the
\* files whose name ends with one of the given extensions and whose path is
\* the path of no record, and reports as other extensions exactly the
\* extensions met in the tree that are not among the given ones.
C13_Untracked == [][C13_Step]_vars

\* The main directory walked for mp3 with a.mp3 a record: b.mp3 and .mp3 are
\* listed, a.mp3 is not, and txt and ogg are the other extensions.
C13_Witness ==
  /\ last.op = "find_untracked"
  /\ last.extensions = <<<<"m", "p", "3">>>>
  /\ last.data_directory = main_data_directory
  /\ FileA \in {file_records[i].path : i \in 1..Len(file_records)}
  /\ last.untracked_files_list = <<FileDot, FileB>>
  /\ {<<"t", "x", "t">>, <<"o", "g", "g">>} \subseteq last.found_extensions

(***************************************************************************)
(* find_duplicated_filenames                                               *)
(***************************************************************************)

\* The loop of find_duplicated_filenames from the record at position i on.
RECURSIVE DuplicatedLoop(_, _, _, _, _)
DuplicatedLoop(os, recs, i, out, base_names) ==
  IF i > Len(recs) THEN out
  ELSE LET b == os_path_basename(os, recs[i].path) IN
       IF b \in base_names
       THEN DuplicatedLoop(os, recs, i + 1, Append(out, recs[i].path),
                           base_names)
       ELSE DuplicatedLoop(os, recs, i + 1, out, base_names \cup {b})

\* find_duplicated_filenames with whole paths compared in place of basenames.
FindDuplicatedFilenames_WholePath(os, recs) ==
  LET at == SelectSeq([i \in 1..Len(recs) |-> i],
                      LAMBDA i : \E j \in 1..(i - 1) :
                                   recs[j].path = recs[i].path)
  IN  [k \in 1..Len(at) |-> recs[at[k]].path]

\* TagsForFiles.find_duplicated_filenames
FindDuplicatedFilenames(os, recs) == DuplicatedLoop(os, recs, 1, <<>>, {})

find_duplicated_filenames ==
  /\ last' = [op |-> "find_duplicated_filenames",
              out |-> FindDuplicatedFilenames(os_name, file_records)]
  /\ UNCHANGED <<os_name, files, dirs, file_records, tags>>

\* The index under the operations that add, remove, reorder and move
\* records, and the search for duplicated file names.
NextNames ==
  \/ \E text_data \in Texts(os_name) :
       import_text_data(text_data) /\ WithinBounds(file_records')
  \/ \E path \in {PathBY(os_name), PathTX(os_name)} : add_path(path)
  \/ prune
  \/ write_file_records_to_file
  \/ \E a \in MoveArgs : move_if_tagged(a[1], a[2])
  \/ find_duplicated_filenames

SpecNames == Init /\ [][NextNames]_vars

\* the name of the file of a path: what follows its last separator
NameOf(p) ==
  CHOOSE t \in {SubSeq(p, n + 1, Len(p)) : n \in 0..Len(p)} :
    /\ \A k \in 1..Len(t) : t[k] \notin os_seps(os_name)
    /\ Len(t) < Len(p) => p[Len(p) - Len(t)] \in os_seps(os_name)

\* C14: find_duplicated_filenames returns, in index order, exactly the paths
\* of the records whose file name is the file name of an earlier record; the
\* first record with a file name is not returned.
C14_DuplicatedNames ==
  last.op = "find_duplicated_filenames" =>
    LET later == SelectSeq([i \in 1..Len(file_records) |-> i],
                   LAMBDA i : \E j \in 1..(i - 1) :
                     NameOf(file_records[j].path) =
                       NameOf(file_records[i].path))
    IN  last.out = [k \in 1..Len(later) |-> file_records[later[k]].path]

\* Two records named y after the first: both are returned, the first record
\* named y is not.
C14_Witness ==
  /\ last.op = "find_duplicated_filenames"
  /\ Len(last.out) = 2
  /\ last.out[1] # last.out[2]
  /\ \A k \in 1..2 : NameOf(last.out[k]) = <<"y">>
  /\ \E i \in 1..Len(file_records) :
       /\ NameOf(file_records[i].path) = <<"y">>
       /\ \A k \in 1..2 : file_records[i].path # last.out[k]

(***************************************************************************)
(* The characters of a tag                                                 *)
(***************************************************************************)

\* The texts made into tags: of upper and lower case letters, a punctuation
\* character that is removed, and the whitespace control characters.
CleanChars == {"A", "b", "!", "\t", "\n", "\r"}
CleanTexts == UNION {[1..n -> CleanChars] : n \in 0..MaxLen}

\* A text is chosen; the index holds the record of a/x with the tag Rock.
InitClean ==
  /\ os_name \in Platforms
  /\ files = InitFiles(os_name)
  /\ dirs = InitDirs(os_name)
  /\ LET r == ImportTextData(<<>>, {}, files, dirs,
                             <<Ln(PathAX(os_name)), Ln(TagRock)>>)
     IN  file_records = r.records /\ tags = r.tags
  /\ last \in [op : {"input"}, text : CleanTexts]

\* extract_all_tags where the file of a/x carries the text as its artist.
extract_artist ==
  /\ last.op = "input"
  /\ extract_all_tags([tinytag_exception |-> {}, other_exception |-> {},
                       tag |-> [NoFields EXCEPT !.artist = <<last.text>>]])

NextClean ==
  \/ transform_to_tag_call
  \/ extract_artist
  \/ clean_all_tags

SpecClean == InitClean /\ [][NextClean]_vars

UpperCase == {Printable[i] : i \in 34..59}

\* the characters a tag must not hold
NotInTag == UpperCase \cup to_remove \cup {"\r", "\t", "\n"}

\* C15: the result of transform_to_tag holds no upper-case letter, none of
\* the punctuation characters of to_remove and no carriage return, tab or
\* newline, and so after clean_all_tags no tag of a record holds one.
C15_TagCharacters ==
  /\ last.op = "transform_to_tag" =>
       \A k \in 1..Len(last.ret) : last.ret[k] \notin NotInTag
  /\ last.op = "clean_all_tags" =>
       \A i \in 1..Len(file_records) : \A t \in file_records[i].tags :
         \A k \in 1..Len(t) : t[k] \notin NotInTag

(***************************************************************************)
(* The text written for an index                                           *)
(***************************************************************************)

\* Two tag files with the same two records in the two orders: a/y with the
\* tag to-delete, and .trash/y, which names no file, with the tag a.
TextYT(os) ==
  <<Ln(PathAY(os)), Ln(to_delete), Ln(<<>>), Ln(PathTY(os)), Ln(TagA)>>
TextTY(os) ==
  <<Ln(PathTY(os)), Ln(TagA), Ln(<<>>), Ln(PathAY(os)), Ln(to_delete)>>
OrderTexts(os) == {TextYT(os), TextTY(os)}

\* The indexes reached from the new index by reading one of the two tag
\* files, and by delete() after that.
OrderIndexes(os) ==
  UNION {LET r == ImportTextData(<<>>, {}, InitFiles(os), InitDirs(os), t)
             m == MoveIfTagged(os, r.records, InitFiles(os), InitDirs(os),
                               to_delete, dot_trash)
         IN  {r.records, m.records} : t \in OrderTexts(os)}

NextOrder ==
  \/ \E text_data \in OrderTexts(os_name) :
       import_text_data(text_data) /\ WithinBounds(file_records')
  \/ \E path \in AddPaths(os_name) : add_path(path)
  \/ \E a \in MoveArgs : move_if_tagged(a[1], a[2])
  \/ \E a \in ReplaceArgs : replace_tag(a[1], a[2])
  \/ prune
  \/ write_file_records_to_file

SpecOrder == Init /\ [][NextOrder]_vars

\* Two indexes hold the same records: every (path, tags, comments) is held
\* by as many records of the one as of the other.
SameRecords(r1, r2) ==
  /\ Len(r1) = Len(r2)
  /\ \A c \in Triples(r1) \cup Triples(r2) :
       Cardinality({i \in 1..Len(r1) :
                      <<r1[i].path, r1[i].tags, r1[i].comments>> = c}) =
       Cardinality({i \in 1..Len(r2) :
                      <<r2[i].path, r2[i].tags, r2[i].comments>> = c})

\* C16: the text written is determined by the records held, whatever their
\* order of insertion: an index that holds the same records as the one just
\* written is written as the same text; and the records are written in
\* ascending order of path.
C16_Deterministic ==
  last.op = "write_file_records_to_file" =>
    /\ \A other \in OrderIndexes(os_name) :
         SameRecords(other, file_records) =>
           WriteFileRecords(other).text = last.text
    /\ \A i, j \in 1..Len(file_records) :
         i < j => ~StrLess(file_records[j].path, file_records[i].path)

(***************************************************************************)
(* The packing rule of paragraph_wrap                                      *)
(***************************************************************************)

\* the text of a line: its tokens with single spaces between them
LineText(tokens) == join(<<" ">>, tokens)

\* C17: paragraph_wrap packs every line by one rule: a token goes on the
\* current line exactly when the length of the text of the line so far plus
\* the length of the token is less than num_columns; so a line of several
\* tokens is not longer than num_columns, and a token at least num_columns
\* long is alone on its line.
C17_GreedyRule ==
  last.op = "paragraph_wrap" =>
    LET n     == last.num_columns
        lines == [k \in 1..Len(last.out_list) |-> TokensOf(last.out_list[k])]
    IN
    /\ \A k \in 1..Len(lines) : \A j \in 2..Len(lines[k]) :
         Len(LineText(SubSeq(lines[k], 1, j - 1))) + Len(lines[k][j]) < n
    /\ \A k \in 1..(Len(lines) - 1) :
         Len(LineText(lines[k])) + Len(lines[k + 1][1]) >= n
    /\ \A k \in 1..Len(lines) :
         /\ Len(lines[k]) > 1 => Len(LineText(lines[k])) <= n
         /\ \A j \in 1..Len(lines[k]) :
              Len(lines[k][j]) >= n => Len(lines[k]) = 1

(***************************************************************************)
(* All the operations of the index                                         *)
(***************************************************************************)

\* the numbers of a set of tags under the function c, largest first
RECURSIVE CountsDescending(_, _)
CountsDescending(c, S) ==
  IF S = {} THEN <<>>
  ELSE LET t == CHOOSE x \in S : \A u \in S : c[u] <= c[x]
       IN  <<c[t]>> \o CountsDescending(c, S \ {t})

\* TagsForFiles.count_tags: tag_counts, and the counts of the list returned,
\* which is sorted by count, largest first.
CountTags(recs) ==
  LET all == UNION {recs[i].tags : i \in 1..Len(recs)}
      tag_counts == [t \in all |->
                       Cardinality({i \in 1..Len(recs) : t \in recs[i].tags})]
  IN  [tag_counts |-> tag_counts, counts |-> CountsDescending(tag_counts, all)]

count_tags ==
  LET r == CountTags(file_records) IN
  /\ last' = [op |-> "count_tags", tag_counts |-> r.tag_counts,
              counts |-> r.counts]
  /\ UNCHANGED <<os_name, files, dirs, file_records, tags>>

\* TagsForFiles.export: the records are written to a new file of the main
\* data directory.
export ==
  LET r == WriteFileRecords(file_records)
      now_file == make_time_stamped_file_name(os_name, <<"t", "a", "g", "s">>,
                                              <<"t", "x", "t">>)
  IN  /\ file_records' = r.records
      /\ files' = files \cup {now_file}
      /\ last' = [op |-> "export", text |-> r.text, now_file |-> now_file]
      /\ UNCHANGED <<os_name, dirs, tags>>

\* The index under the operations that read it, change its tags, write it,
\* prune it and move its files.
NextAll ==
  \/ NextQuery
  \/ count_tags
  \/ write_file_records_to_file
  \/ export

SpecAll == Init /\ [][NextAll]_vars

\* the number of records of recs with the id and the path of c
Held(recs, c) ==
  Cardinality({i \in 1..Len(recs) : <<recs[i].id, recs[i].path>> = c})

IdsAndPaths(recs) == {<<recs[i].id, recs[i].path>> : i \in 1..Len(recs)}

C18_Step ==
  /\ last'.op \notin {"prune", "move_if_tagged"} =>
       \A c \in IdsAndPaths(file_records) :
         Held(file_records', c) >= Held(file_records, c)
  /\ last'.op = "move_if_tagged" =>
       /\ Len(file_records') = Len(file_records)
       /\ \A i \in 1..Len(file_records) :
            file_records'[i].id = file_records[i].id
  /\ last'.op = "prune" =>
       \A c \in IdsAndPaths(file_records') :
         Held(file_records', c) <= Held(file_records, c)

ParentOf(p) ==
  LET seps == {i \in 1..Len(p) : p[i] \in {"/", "\\"}}
      end  == IF seps = {} THEN 0
              ELSE CHOOSE i \in seps : \A j \in seps : j <= i
      before == {i \in seps : i < end}
      start  == IF before = {} THEN 0
                ELSE CHOOSE i \in before : \A j \in before : j <= i
  IN  SubSeq(p, start + 1, end - 1)

C19_Step ==
  last'.op = "move_if_tagged" =>
    last'.to_move =
      SelectSeq([i \in 1..Len(file_records) |-> i],
                LAMBDA i : /\ last'.ttag \in file_records[i].tags
                           /\ ParentOf(file_records[i].path) # last'.ddir)

\* C19: move_if_tagged(tag, ddir) selects exactly the records that carry tag
\* and whose parent directory is not ddir: a record whose file lies in the
\* destination directory is not selected, whichever separator its path uses.
C19_Selection == [][C19_Step]_vars

\* the number of records of recs equal to the record f
Copies(recs, f) == Cardinality({i \in 1..Len(recs) : recs[i] = f})

C20_Step ==
  last'.op \in {"write_file_records_to_file", "export"} =>
    /\ tags' = tags
    /\ Len(file_records') = Len(file_records)
    /\ \A i \in 1..Len(file_records) :
         Copies(file_records', file_records[i]) =
           Copies(file_records, file_records[i])
    /\ \A i, j \in 1..Len(file_records') :
         i < j => ~StrLess(file_records'[j].path, file_records'[i].path)

\* C20: write_file_records_to_file and export change the index in the order
\* of its records only: the records, each with its id, path, exists flag,
\* tags and comments, and the global tags are the same after the call, and
\* the records are in ascending order of path.
C20_WriteFrame == [][C20_Step]_vars

\* A write_file_records_to_file that has put a record added later before a
\* record added earlier.
C20_Witness ==
  /\ last.op = "write_file_records_to_file"
  /\ \E i \in 1..(Len(file_records) - 1) :
       file_records[i].id > file_records[i + 1].id

====
